---- MODULE Spec2Model ----
(***************************************************************************)
(* A model of the tokenizer of src/src/lexer.rs: TokenIter over a borrowed *)
(* byte buffer.  Bytes are their numeric values, offsets are 0-based as in *)
(* the source (the byte at offset i is bytes[i + 1]).  One action, Pull,   *)
(* is one whole call of Iterator::next.                                    *)
(***************************************************************************)
EXTENDS Integers, Sequences, FiniteSets, TLC

\* ------------------------------------------------------------------ bytes

TAB == 9
LF == 10
FF == 12
CR == 13
SPACE == 32
BANG == 33
QUOTE == 34
HASH == 35
DOLLAR == 36
LPAREN == 40
RPAREN == 41
STAR == 42
COMMA == 44
DOT == 46
COLON == 58
SEMI == 59
QMARK == 63
AT == 64
BACKSLASH == 92
UNDERSCORE == 95
D0 == 48
D1 == 49
D2 == 50
D3 == 51
D4 == 52
D9 == 57
UA == 65
UZ == 90
LA == 97
LF_ == 102
LI == 105
LN == 110
LO == 111
LT == 116
LZ == 122
BADBYTE == 255

\* the absent byte: Option::None of peek_byte / next_byte
NoByte == 0 - 1

\* u8::is_ascii_whitespace: space, tab, line feed, form feed, carriage return
IsWs(b) == b \in {SPACE, TAB, LF, FF, CR}

IsLetter(b) == (b >= LA /\ b <= LZ) \/ (b >= UA /\ b <= UZ)

IsDigit(b) == b >= D0 /\ b <= D9

\* the closure of the identifier loop: letters, digits and underscore
IsIdentByte(b) == IsLetter(b) \/ IsDigit(b) \/ b = UNDERSCORE

\* the closure of the numeric loop: `.` and digits
IsNumByte(b) == b = DOT \/ IsDigit(b)

\* the values of a u8
Bytes == 0..BADBYTE

LetterBytes == { b \in Bytes : IsLetter(b) }

IdentBytes == { b \in Bytes : IsIdentByte(b) }

NumBytes == { b \in Bytes : IsNumByte(b) }

\* ----------------------------------------------------------------- cursor

\* peek_byte: the byte at offset i, or none at the end of the buffer
peek_byte(buf, i) == IF i < Len(buf) THEN buf[i + 1] ELSE NoByte

\* next_byte as it would be with the increment ahead of the bounds check
next_byte_unchecked(buf, i) == i + 1

\* next_byte: the offset after consuming one byte; it does not move at the end
next_byte(buf, i) == IF i < Len(buf) THEN i + 1 ELSE i

\* next_byte_if: whether the byte at offset i exists and satisfies the
\* closure, given as the set of the bytes it accepts (then next_byte
\* consumes it)
next_byte_if(buf, i, accepted) == i < Len(buf) /\ buf[i + 1] \in accepted

\* ----------------------------------------------------------------- trivia

\* the outcome of a scan: the offset it stopped at and whether it ran out of
\* bytes (a `?` that returned None)
Scan(e, i) == [eof |-> e, index |-> i]

\* while self.peek_byte()?.is_ascii_whitespace() { _ = self.next_byte(); }
RECURSIVE SkipWs(_, _)
SkipWs(buf, i) ==
    IF peek_byte(buf, i) = NoByte THEN Scan(TRUE, i)
    ELSE IF IsWs(peek_byte(buf, i)) THEN SkipWs(buf, next_byte(buf, i))
    ELSE Scan(FALSE, i)

\* the block-comment loop as it would be if it consumed the closing `#`
RECURSIVE BlockScan_consumesClose(_, _)
BlockScan_consumesClose(buf, i) ==
    LET b == peek_byte(buf, i)
        j == next_byte(buf, i)
    IN  IF b = NoByte THEN Scan(TRUE, j)
        ELSE IF b # BANG THEN BlockScan_consumesClose(buf, j)
        ELSE IF peek_byte(buf, j) = NoByte THEN Scan(TRUE, j)
        ELSE IF peek_byte(buf, j) = HASH THEN Scan(FALSE, next_byte(buf, j))
        ELSE BlockScan_consumesClose(buf, j)

\* the block-comment loop, entered after `#!`: consume bytes; after a
\* consumed `!`, stop if the byte that follows is `#` (which is only peeked)
RECURSIVE BlockScan(_, _)
BlockScan(buf, i) ==
    LET b == peek_byte(buf, i)
        j == next_byte(buf, i)
    IN  IF b = NoByte THEN Scan(TRUE, j)
        ELSE IF b # BANG THEN BlockScan(buf, j)
        ELSE IF peek_byte(buf, j) = NoByte THEN Scan(TRUE, j)
        ELSE IF peek_byte(buf, j) = HASH THEN Scan(FALSE, j)
        ELSE BlockScan(buf, j)

\* the line-comment loop: while self.next_byte()? != b'\n' {}
RECURSIVE LineScan(_, _)
LineScan(buf, i) ==
    LET b == peek_byte(buf, i)
        j == next_byte(buf, i)
    IN  IF b = NoByte THEN Scan(TRUE, j)
        ELSE IF b = LF THEN Scan(FALSE, j)
        ELSE LineScan(buf, j)

\* the match on the byte after `#`: i is the offset of that byte
CommentBody(buf, i) ==
    LET b == peek_byte(buf, i)
        j == next_byte(buf, i)
    IN  IF b = NoByte THEN Scan(TRUE, j)
        ELSE IF b = BANG THEN BlockScan(buf, j)
        ELSE IF b = LF THEN Scan(FALSE, j)
        ELSE LineScan(buf, j)

\* what the match on the byte after `#` chose
CommentKind(buf, i) ==
    LET b == peek_byte(buf, i)
    IN  IF b = NoByte THEN "none"
        ELSE IF b = BANG THEN "block"
        ELSE IF b = LF THEN "empty"
        ELSE "line"

\* one entry of the trace of the comment loop: the offset of the `#` that
\* started the comment, the arm chosen, the offset at which the arm ended and
\* whether it ran out of bytes
Comment(p, k, s) == [start |-> p, kind |-> k, stop |-> s.index, eof |-> s.eof]

\* the comment loop as it would be without the whitespace loop that ends
\* its body
RECURSIVE SkipComments_noTrailingWs(_, _, _)
SkipComments_noTrailingWs(buf, i, log) ==
    IF peek_byte(buf, i) # HASH THEN [eof |-> FALSE, index |-> i, log |-> log]
    ELSE LET j == next_byte(buf, i)
             s == CommentBody(buf, j)
             log2 == Append(log, Comment(i, CommentKind(buf, j), s))
         IN  IF s.eof THEN [eof |-> TRUE, index |-> s.index, log |-> log2]
             ELSE SkipComments_noTrailingWs(buf, s.index, log2)

\* while let Some(b'#') = self.peek_byte() { ... }: the comment loop from
\* offset i, with the trace of the comments it went through
RECURSIVE SkipComments(_, _, _)
SkipComments(buf, i, log) ==
    IF peek_byte(buf, i) # HASH THEN [eof |-> FALSE, index |-> i, log |-> log]
    ELSE LET j == next_byte(buf, i)
             s == CommentBody(buf, j)
             log2 == Append(log, Comment(i, CommentKind(buf, j), s))
         IN  IF s.eof THEN [eof |-> TRUE, index |-> s.index, log |-> log2]
             ELSE LET w == SkipWs(buf, s.index)
                  IN  IF w.eof THEN [eof |-> TRUE, index |-> w.index, log |-> log2]
                      ELSE SkipComments(buf, w.index, log2)

\* lines 150-171 alone: the trivia as it would be skipped without the
\* whitespace loop of line 145
SkipTrivia_noLeadingWs(buf, i) ==
    IF peek_byte(buf, i) = NoByte THEN [eof |-> TRUE, index |-> i, log |-> << >>]
    ELSE SkipComments(buf, i, << >>)

\* lines 145-171 of Iterator::next: leading whitespace, then the comment loop
SkipTrivia(buf, i) ==
    LET w == SkipWs(buf, i)
    IN  IF w.eof THEN [eof |-> TRUE, index |-> w.index, log |-> << >>]
        ELSE SkipComments(buf, w.index, << >>)

\* --------------------------------------------------- external collaborators

\* Keyword::from_str: the names it resolves (the keyword table lives in
\* token.rs); "fn" stands for the closed set
KeywordNames == { <<LF_, LN>> }

\* Ty::from_str: the names it resolves; "int32" and "f32" stand for the
\* closed set
TyNames == { <<LI, LN, LT, D3, D2>>, <<LF_, D3, D2>> }

\* the largest value of the integer payload of Value::Int
IntMax == 2147483647

\* ----------------------------------------------------------------- values

\* a result of a pull: the variant, the owned text of Keyword / Ty /
\* Identifier / Str, and the number of Int (mant) or Float (mant / 10^scale)
Result(tag, text, mant, scale) ==
    [tag |-> tag, text |-> text, mant |-> mant, scale |-> scale]

Plain(tag) == Result(tag, << >>, 0, 0)

ErrorTags == {"NonTerminatedStr", "NonUTF8", "UnexpectedCharacter",
              "InvalidFloatLiteral", "InvalidIntLiteral"}

PunctTags == {"Star", "Comma", "Colon", "SemiColon", "At", "LeftSmooth",
              "RightSmooth", "QuestionMark"}

TokenTags == {"Keyword", "Ty", "Identifier", "Str", "Int", "Float"} \cup PunctTags

\* a continuation byte of a UTF-8 sequence
IsCont(b) == b >= 128 /\ b <= 191

\* String::from_utf8 succeeds: the bytes from position k on are well-formed
\* UTF-8 (no overlong forms, no surrogates, nothing above U+10FFFF)
RECURSIVE Utf8From(_, _)
Utf8From(s, k) ==
    IF k > Len(s) THEN TRUE
    ELSE LET b == s[k]
             c(n) == IF k + n <= Len(s) THEN s[k + n] ELSE NoByte
         IN  IF b < 128 THEN Utf8From(s, k + 1)
             ELSE IF b >= 194 /\ b <= 223
                  THEN IsCont(c(1)) /\ Utf8From(s, k + 2)
             ELSE IF b >= 224 /\ b <= 239
                  THEN /\ IsCont(c(1)) /\ IsCont(c(2))
                       /\ (b = 224 => c(1) >= 160)
                       /\ (b = 237 => c(1) <= 159)
                       /\ Utf8From(s, k + 3)
             ELSE IF b >= 240 /\ b <= 244
                  THEN /\ IsCont(c(1)) /\ IsCont(c(2)) /\ IsCont(c(3))
                       /\ (b = 240 => c(1) >= 144)
                       /\ (b = 244 => c(1) <= 143)
                       /\ Utf8From(s, k + 4)
             ELSE FALSE

from_utf8_ok(s) == Utf8From(s, 1)

\* the integer parse as it would be if a value out of range were clamped to
\* the largest value
RECURSIVE ParseIntFrom_saturates(_, _, _)
ParseIntFrom_saturates(s, k, acc) ==
    IF k > Len(s) THEN [ok |-> TRUE, value |-> acc]
    ELSE IF ~IsDigit(s[k]) THEN [ok |-> FALSE, value |-> 0]
    ELSE LET d == s[k] - D0
         IN  IF acc > (IntMax - d) \div 10 THEN [ok |-> TRUE, value |-> IntMax]
             ELSE ParseIntFrom_saturates(s, k + 1, acc * 10 + d)

\* str::parse of an integer: the decimal value of the digits read left to
\* right, an error when the text is empty, holds a byte that is no digit, or
\* the value leaves the payload's range
RECURSIVE ParseIntFrom(_, _, _)
ParseIntFrom(s, k, acc) ==
    IF k > Len(s) THEN [ok |-> TRUE, value |-> acc]
    ELSE IF ~IsDigit(s[k]) THEN [ok |-> FALSE, value |-> 0]
    ELSE LET d == s[k] - D0
         IN  IF acc > (IntMax - d) \div 10 THEN [ok |-> FALSE, value |-> 0]
             ELSE ParseIntFrom(s, k + 1, acc * 10 + d)

ParseInt(s) ==
    IF Len(s) = 0 THEN [ok |-> FALSE, value |-> 0] ELSE ParseIntFrom(s, 1, 0)

\* the digits of a decimal text with its `.` taken out
RECURSIVE DigitsOf(_, _)
DigitsOf(s, k) ==
    IF k > Len(s) THEN << >>
    ELSE IF s[k] = DOT THEN DigitsOf(s, k + 1)
    ELSE <<s[k]>> \o DigitsOf(s, k + 1)

\* the number of bytes after the first `.` of a text (0 without a `.`)
RECURSIVE FractionLen(_, _)
FractionLen(s, k) ==
    IF k > Len(s) THEN 0
    ELSE IF s[k] = DOT THEN Len(s) - k
    ELSE FractionLen(s, k + 1)

\* a decimal fraction in lowest terms of ten: 1.20 and 1.2 are one number
RECURSIVE Normal(_, _)
Normal(m, e) ==
    IF e > 0 /\ m % 10 = 0 THEN Normal(m \div 10, e - 1)
    ELSE [ok |-> TRUE, mant |-> m, scale |-> e]

\* the decimal value of a text of digits
RECURSIVE DecimalValue(_, _, _)
DecimalValue(s, k, acc) ==
    IF k > Len(s) THEN acc ELSE DecimalValue(s, k + 1, acc * 10 + (s[k] - D0))

\* str::parse of a float, on a text of digits and `.`: the text needs at
\* least one digit and at most one `.`, and no such text is out of range; its
\* value is mant / 10^scale (the texts of the model are short enough to
\* denote distinct floats exactly when they denote distinct fractions)
ParseFloat(s) ==
    LET ds == DigitsOf(s, 1)
    IN  IF Len(ds) = 0 \/ Len(s) - Len(ds) > 1
        THEN [ok |-> FALSE, mant |-> 0, scale |-> 0]
        ELSE Normal(DecimalValue(ds, 1, 0), FractionLen(s, 1))

\* ------------------------------------------------------------- classifier

\* the outcome of next_token: the result and the offset it left the cursor at
Tok(r, i) == [res |-> r, index |-> i]

\* the identifier loop as it would be if its closure accepted letters only
RECURSIVE IdentRun_lettersOnly(_, _, _)
IdentRun_lettersOnly(buf, i, acc) ==
    IF next_byte_if(buf, i, LetterBytes)
    THEN IdentRun_lettersOnly(buf, next_byte(buf, i), Append(acc, peek_byte(buf, i)))
    ELSE [index |-> i, bytes |-> acc]

\* the identifier loop: push bytes while next_byte_if accepts them
RECURSIVE IdentRun(_, _, _)
IdentRun(buf, i, acc) ==
    IF next_byte_if(buf, i, IdentBytes)
    THEN IdentRun(buf, next_byte(buf, i), Append(acc, peek_byte(buf, i)))
    ELSE [index |-> i, bytes |-> acc]

\* the classification as it would be without the type-name resolver
Classify_noTy(str) ==
    IF str \in KeywordNames THEN Result("Keyword", str, 0, 0)
    ELSE Result("Identifier", str, 0, 0)

\* Keyword::from_str, then Ty::from_str, then Identifier
Classify(str) ==
    IF str \in KeywordNames THEN Result("Keyword", str, 0, 0)
    ELSE IF str \in TyNames THEN Result("Ty", str, 0, 0)
    ELSE Result("Identifier", str, 0, 0)

\* the string loop as it would be if a backslash escaped the byte after it
RECURSIVE StrRun_escapes(_, _, _)
StrRun_escapes(buf, i, acc) ==
    LET b == peek_byte(buf, i)
        j == next_byte(buf, i)
    IN  IF b = NoByte THEN [closed |-> FALSE, index |-> j, bytes |-> acc]
        ELSE IF b = QUOTE THEN [closed |-> TRUE, index |-> j, bytes |-> acc]
        ELSE IF b = BACKSLASH /\ peek_byte(buf, j) # NoByte
             THEN StrRun_escapes(buf, next_byte(buf, j),
                                 Append(Append(acc, b), peek_byte(buf, j)))
        ELSE StrRun_escapes(buf, j, Append(acc, b))

\* the string loop as it would be if the end of the buffer closed the string
RECURSIVE StrRun_closedAtEnd(_, _, _)
StrRun_closedAtEnd(buf, i, acc) ==
    LET b == peek_byte(buf, i)
        j == next_byte(buf, i)
    IN  IF b = NoByte \/ b = QUOTE THEN [closed |-> TRUE, index |-> j, bytes |-> acc]
        ELSE StrRun_closedAtEnd(buf, j, Append(acc, b))

\* the string loop: consume bytes up to and including the first `"`
RECURSIVE StrRun(_, _, _)
StrRun(buf, i, acc) ==
    LET b == peek_byte(buf, i)
        j == next_byte(buf, i)
    IN  IF b = NoByte THEN [closed |-> FALSE, index |-> j, bytes |-> acc]
        ELSE IF b = QUOTE THEN [closed |-> TRUE, index |-> j, bytes |-> acc]
        ELSE StrRun(buf, j, Append(acc, b))

\* the numeric loop: next_byte_if consumes a `.` or a digit; the first `.`
\* sets dot, a `.` met with dot set breaks out of the loop without being
\* pushed
RECURSIVE NumRun(_, _, _, _)
NumRun(buf, i, dot, acc) ==
    IF ~next_byte_if(buf, i, NumBytes)
    THEN [index |-> i, dot |-> dot, bytes |-> acc]
    ELSE LET b == peek_byte(buf, i)
             j == next_byte(buf, i)
         IN  IF b = DOT /\ dot THEN [index |-> j, dot |-> dot, bytes |-> acc]
             ELSE NumRun(buf, j, dot \/ b = DOT, Append(acc, b))

\* the one-byte tokens as they would be without the arm of `;`
Punct_noSemi(b) ==
    CASE b = STAR -> "Star"
      [] b = COMMA -> "Comma"
      [] b = COLON -> "Colon"
      [] b = AT -> "At"
      [] b = LPAREN -> "LeftSmooth"
      [] b = RPAREN -> "RightSmooth"
      [] b = QMARK -> "QuestionMark"
      [] OTHER -> "UnexpectedCharacter"

\* the one-byte tokens as they would be with the arms of `:` and `;`
\* exchanged
Punct_swapped(b) ==
    CASE b = STAR -> "Star"
      [] b = COMMA -> "Comma"
      [] b = COLON -> "SemiColon"
      [] b = SEMI -> "Colon"
      [] b = AT -> "At"
      [] b = LPAREN -> "LeftSmooth"
      [] b = RPAREN -> "RightSmooth"
      [] b = QMARK -> "QuestionMark"
      [] OTHER -> "UnexpectedCharacter"

\* the fixed one-byte tokens
Punct(b) ==
    CASE b = STAR -> "Star"
      [] b = COMMA -> "Comma"
      [] b = COLON -> "Colon"
      [] b = SEMI -> "SemiColon"
      [] b = AT -> "At"
      [] b = LPAREN -> "LeftSmooth"
      [] b = RPAREN -> "RightSmooth"
      [] b = QMARK -> "QuestionMark"
      [] OTHER -> "UnexpectedCharacter"

\* next_token: byte is the byte already consumed, i the offset after it
next_token(buf, i, byte) ==
    IF IsLetter(byte)
    THEN LET r == IdentRun(buf, i, <<byte>>)
         IN  Tok(Classify(r.bytes), r.index)
    ELSE IF byte = QUOTE
    THEN LET r == StrRun(buf, i, << >>)
         IN  IF ~r.closed THEN Tok(Plain("NonTerminatedStr"), r.index)
             ELSE IF ~from_utf8_ok(r.bytes) THEN Tok(Plain("NonUTF8"), r.index)
             ELSE Tok(Result("Str", r.bytes, 0, 0), r.index)
    ELSE IF IsDigit(byte)
    THEN LET r == NumRun(buf, i, FALSE, <<byte>>)
             f == ParseFloat(r.bytes)
             n == ParseInt(r.bytes)
         IN  IF r.dot
             THEN IF f.ok THEN Tok(Result("Float", << >>, f.mant, f.scale), r.index)
                  ELSE Tok(Plain("InvalidFloatLiteral"), r.index)
             ELSE IF n.ok THEN Tok(Result("Int", << >>, n.value, 0), r.index)
                  ELSE Tok(Plain("InvalidIntLiteral"), r.index)
    ELSE Tok(Plain(Punct(byte)), i)

\* ------------------------------------------------------------ the iterator

\* Iterator::next as it would be with last_index set before the trivia is
\* skipped
IterNext_markBeforeTrivia(buf, last, i) ==
    LET t == SkipTrivia(buf, i)
        b == peek_byte(buf, t.index)
        j == next_byte(buf, t.index)
        k == next_token(buf, j, b)
    IN  IF t.eof
        THEN [last_index |-> i, index |-> t.index, res |-> Plain("None"),
              log |-> t.log, mark |-> t.index]
        ELSE IF b = NoByte
        THEN [last_index |-> i, index |-> j, res |-> Plain("None"),
              log |-> t.log, mark |-> t.index]
        ELSE [last_index |-> i, index |-> k.index, res |-> k.res,
              log |-> t.log, mark |-> t.index]

\* Iterator::next as it would be if a comment cut short by the end of the
\* buffer were reported as an error
IterNext_eofIsError(buf, last, i) ==
    LET t == SkipTrivia(buf, i)
        b == peek_byte(buf, t.index)
        j == next_byte(buf, t.index)
        k == next_token(buf, j, b)
        cut == Len(t.log) >= 1 /\ t.log[Len(t.log)].eof
    IN  IF t.eof
        THEN [last_index |-> IF cut THEN t.log[Len(t.log)].start ELSE last,
              index |-> t.index,
              res |-> IF cut THEN Plain("UnexpectedCharacter") ELSE Plain("None"),
              log |-> t.log, mark |-> t.index]
        ELSE IF b = NoByte
        THEN [last_index |-> t.index, index |-> j, res |-> Plain("None"),
              log |-> t.log, mark |-> t.index]
        ELSE [last_index |-> t.index, index |-> k.index, res |-> k.res,
              log |-> t.log, mark |-> t.index]

\* Iterator::next as it would be if the byte handed to next_token were
\* peeked, so that a byte no arm takes is not consumed
IterNext_peeksFirstByte(buf, last, i) ==
    LET t == SkipTrivia(buf, i)
        b == peek_byte(buf, t.index)
        j == next_byte(buf, t.index)
        k == next_token(buf, j, b)
    IN  IF t.eof
        THEN [last_index |-> last, index |-> t.index, res |-> Plain("None"),
              log |-> t.log, mark |-> t.index]
        ELSE IF b = NoByte
        THEN [last_index |-> t.index, index |-> j, res |-> Plain("None"),
              log |-> t.log, mark |-> t.index]
        ELSE [last_index |-> t.index,
              index |-> IF k.res.tag = "UnexpectedCharacter" THEN t.index ELSE k.index,
              res |-> k.res, log |-> t.log, mark |-> t.index]

\* Iterator::next as it would be if a call that meets the end of the buffer
\* inside trivia gave the trivia back
IterNext_unreadsTrivia(buf, last, i) ==
    LET t == SkipTrivia(buf, i)
        b == peek_byte(buf, t.index)
        j == next_byte(buf, t.index)
        k == next_token(buf, j, b)
    IN  IF t.eof
        THEN [last_index |-> last, index |-> i, res |-> Plain("None"),
              log |-> t.log, mark |-> i]
        ELSE IF b = NoByte
        THEN [last_index |-> t.index, index |-> j, res |-> Plain("None"),
              log |-> t.log, mark |-> t.index]
        ELSE [last_index |-> t.index, index |-> k.index, res |-> k.res,
              log |-> t.log, mark |-> t.index]

\* Iterator::next on a cursor (last, i) over buf: the cursor and the result
\* it leaves, with the trace of the comment loop.  Every `?` that meets the
\* end of the buffer returns None and leaves last_index as it was.
IterNext(buf, last, i) ==
    LET t == SkipTrivia(buf, i)
        b == peek_byte(buf, t.index)
        j == next_byte(buf, t.index)
        k == next_token(buf, j, b)
    IN  IF t.eof
        THEN [last_index |-> last, index |-> t.index, res |-> Plain("None"),
              log |-> t.log, mark |-> t.index]
        ELSE IF b = NoByte
        THEN [last_index |-> t.index, index |-> j, res |-> Plain("None"),
              log |-> t.log, mark |-> t.index]
        ELSE [last_index |-> t.index, index |-> k.index, res |-> k.res,
              log |-> t.log, mark |-> t.index]

\* ------------------------------------------------------------------ state

VARIABLES
    bytes,       \* TokenIter.bytes: the borrowed buffer
    last_index,  \* TokenIter.last_index: the start of src_pos()
    index,       \* TokenIter.index: the end of src_pos(), the next unread offset
    res,         \* what the last call of next returned ("Start" before any call)
    pre,         \* history: index when the last call of next began
    log,         \* history: the comments the last call's comment loop went through
    hist,        \* history: the consumed ranges so far, trivia and results in order
    ref          \* a second TokenIter, over a suffix of bytes, pulled in step

vars == <<bytes, last_index, index, res, pre, log, hist, ref>>

\* src_pos(): last_index..index
src_pos == [start |-> last_index, end |-> index]

\* the buffers of at most n bytes over an alphabet
Buffers(alphabet, n) == UNION { [1..k -> alphabet] : k \in 0..n }

\* From<&[u8]>: a fresh TokenIter over buf
Fresh(buf) == [bytes |-> buf, last_index |-> 0, index |-> 0, res |-> Plain("Start")]

NoRef == Fresh(<< >>)

\* the state after TokenIter::from(buf)
From(buf) ==
    /\ bytes = buf
    /\ last_index = 0
    /\ index = 0
    /\ res = Plain("Start")
    /\ pre = 0
    /\ log = << >>
    /\ hist = << >>

Segment(kind, lo, hi) == [kind |-> kind, lo |-> lo, hi |-> hi]

\* the ranges one call of next consumed: the trivia it skipped, if any, then
\* the span of the result it returned, if any
Consumed(from, n) ==
    (IF n.mark > from THEN <<Segment("trivia", from, n.mark)>> ELSE << >>)
    \o (IF n.res.tag # "None"
        THEN <<Segment("result", n.last_index, n.index)>> ELSE << >>)

\* a call of next as it would be if the tokenizer stopped at the first
\* error: the call after an error returns None and consumes nothing
PullMain_stopsAfterError ==
    LET n == IterNext(bytes, last_index, index)
        stop == res.tag \in ErrorTags
    IN  /\ last_index' = IF stop THEN last_index ELSE n.last_index
        /\ index' = IF stop THEN index ELSE n.index
        /\ res' = IF stop THEN Plain("None") ELSE n.res
        /\ pre' = index
        /\ log' = IF stop THEN << >> ELSE n.log
        /\ hist' = IF stop THEN hist ELSE hist \o Consumed(index, n)
        /\ UNCHANGED bytes

\* one call of Iterator::next on the tokenizer
PullMain ==
    LET n == IterNext(bytes, last_index, index)
    IN  /\ last_index' = n.last_index
        /\ index' = n.index
        /\ res' = n.res
        /\ pre' = index
        /\ log' = n.log
        /\ hist' = hist \o Consumed(index, n)
        /\ UNCHANGED bytes

\* one call of Iterator::next on the second tokenizer
PullRef ==
    LET n == IterNext(ref.bytes, ref.last_index, ref.index)
    IN  ref' = [ref EXCEPT !.last_index = n.last_index, !.index = n.index,
                           !.res = n.res]

\* a pull on the tokenizer alone
Pull == PullMain /\ UNCHANGED ref

\* both tokenizers pulled in step
PullBoth == PullMain /\ PullRef

\* ---------------------------------------------------------- specifications

MaxLen == 5
MaxNumLen == 6
MaxTriviaLen == 7
MaxCommentsLen == 9
MaxIdentLen == 5
MaxStrLen == 5

\* one byte of every class the classifier and the trivia loop tell apart
Alphabet == {LA, D1, DOT, QUOTE, HASH, BANG, LF, SEMI, DOLLAR}

NumAlphabet == {D1, D2, DOT, SEMI}

TriviaAlphabet == {HASH, BANG, LF, LA}

CommentsAlphabet == {HASH, BANG, LF}

IdentAlphabet == {LF_, LN, D3, D2, UNDERSCORE, SPACE}

StrAlphabet == {QUOTE, HASH, BANG, BACKSLASH, LF, BADBYTE}

Init == ref = NoRef /\ \E buf \in Buffers(Alphabet, MaxLen) : From(buf)

InitNum == ref = NoRef /\ \E buf \in Buffers(NumAlphabet, MaxNumLen) : From(buf)

InitTrivia == ref = NoRef /\ \E buf \in Buffers(TriviaAlphabet, MaxTriviaLen) : From(buf)

InitComments ==
    ref = NoRef /\ \E buf \in Buffers(CommentsAlphabet, MaxCommentsLen) : From(buf)

InitIdent == ref = NoRef /\ \E buf \in Buffers(IdentAlphabet, MaxIdentLen) : From(buf)

InitStr == ref = NoRef /\ \E buf \in Buffers(StrAlphabet, MaxStrLen) : From(buf)

Next == Pull

Spec == Init /\ [][Next]_vars

SpecNum == InitNum /\ [][Next]_vars

SpecTrivia == InitTrivia /\ [][Next]_vars

SpecComments == InitComments /\ [][Next]_vars

SpecIdent == InitIdent /\ [][Next]_vars

SpecStr == InitStr /\ [][Next]_vars

\* ------------------------------------------------- vocabulary of the claims

\* the byte at offset i of the buffer
ByteAt(i) == peek_byte(bytes, i)

\* the bytes of the buffer at offsets lo .. hi - 1
Slice(lo, hi) == SubSeq(bytes, lo + 1, hi)

\* the last call of next returned a token or an error
Yielded == res.tag \in TokenTags \cup ErrorTags

\* the spans of the results yielded so far, in order
ResultSegs == SelectSeq(hist, LAMBDA g : g.kind = "result")

\* the end of the maximal run of digits and `.` that starts at offset s
RunEnd(s) ==
    IF \E e \in s..Len(bytes) : ~IsNumByte(ByteAt(e))
    THEN CHOOSE e \in s..Len(bytes) :
            /\ ~IsNumByte(ByteAt(e))
            /\ \A k \in s..(e - 1) : IsNumByte(ByteAt(k))
    ELSE Len(bytes)

\* the offsets of the `.` bytes of the numeric run that starts at offset s
DotsOfRun(s) == { k \in s..(RunEnd(s) - 1) : ByteAt(k) = DOT }

\* the numeric run that starts at offset s holds a second `.`
HasSecondDot(s) == IsDigit(ByteAt(s)) /\ Cardinality(DotsOfRun(s)) >= 2

\* the offset of the second `.` of the numeric run that starts at offset s
SecondDot(s) ==
    CHOOSE q \in DotsOfRun(s) : Cardinality({k \in DotsOfRun(s) : k < q}) = 1

\* --------------------------------------------------------------------- C1

\* C1: in a numeric run a second `.` is not consumed: the pull yields the
\* Float of the text before the second `.` and leaves index at that `.`, and
\* the pull after it fails with UnexpectedCharacter on that `.`.
C1_SecondDotLeftForNextPull ==
    LET rs == ResultSegs
        n == Len(rs)
    IN  /\ (Yielded /\ HasSecondDot(last_index))
            => LET q == SecondDot(last_index)
                   f == ParseFloat(Slice(last_index, q))
               IN  /\ res = Result("Float", << >>, f.mant, f.scale)
                   /\ index = q
        /\ (n >= 1 /\ res.tag = "None") => ~HasSecondDot(rs[n].lo)
        /\ (n >= 2 /\ Yielded /\ HasSecondDot(rs[n - 1].lo))
            => /\ res.tag = "UnexpectedCharacter"
               /\ last_index = SecondDot(rs[n - 1].lo)

\* --------------------------------------------------------------------- C2

\* the offset after the first newline at or after offset k, or NoByte
AfterNewline(buf, k) ==
    IF \E m \in k..(Len(buf) - 1) : buf[m + 1] = LF
    THEN 1 + CHOOSE m \in k..(Len(buf) - 1) :
                /\ buf[m + 1] = LF
                /\ \A x \in k..(m - 1) : buf[x + 1] # LF
    ELSE NoByte

\* the offset after the first `!#` pair at or after offset k, or NoByte
AfterClose(buf, k) ==
    IF \E m \in k..(Len(buf) - 2) : buf[m + 1] = BANG /\ buf[m + 2] = HASH
    THEN 2 + CHOOSE m \in k..(Len(buf) - 2) :
                /\ buf[m + 1] = BANG /\ buf[m + 2] = HASH
                /\ \A x \in k..(m - 1) : ~(buf[x + 1] = BANG /\ buf[x + 2] = HASH)
    ELSE NoByte

\* the buffer from offset k on is a concatenation of ASCII whitespace and
\* well-formed comments: `#` newline, `#` ... newline, `#!` ... `!#`
RECURSIVE TriviaOnlyFrom(_, _)
TriviaOnlyFrom(buf, k) ==
    IF k >= Len(buf) THEN TRUE
    ELSE IF IsWs(buf[k + 1]) THEN TriviaOnlyFrom(buf, k + 1)
    ELSE IF buf[k + 1] # HASH \/ k + 1 >= Len(buf) THEN FALSE
    ELSE LET end == IF buf[k + 2] = BANG THEN AfterClose(buf, k + 2)
                    ELSE AfterNewline(buf, k + 1)
         IN  end # NoByte /\ TriviaOnlyFrom(buf, end)

\* C2: on a buffer made only of ASCII whitespace and well-formed comments the
\* first pull returns end-of-sequence: no token and no error is yielded.
C2_TriviaOnlyYieldsNothing ==
    (TriviaOnlyFrom(bytes, 0) /\ res.tag # "Start") => res.tag = "None"

\* --------------------------------------------------------------------- C3

\* 0 <= start <= current <= length(buffer)
CursorInBounds == 0 <= last_index /\ last_index <= index /\ index <= Len(bytes)

\* C3: before and after every pull, whatever it returns, the cursor
\* satisfies 0 <= last_index <= index <= Len(bytes), and no pull decreases
\* last_index or index.
C3_CursorBoundsAndMonotone ==
    [][/\ CursorInBounds
       /\ CursorInBounds'
       /\ last_index <= last_index'
       /\ index <= index']_vars

\* a pull after an earlier one skipped trivia and yielded a result of two
\* bytes or more
C3_Witness ==
    Yielded /\ 0 < pre /\ pre < last_index /\ last_index + 1 < index

\* --------------------------------------------------------------------- C4

\* the bytes of a sequence of consumed ranges, concatenated in order
RECURSIVE Concat(_, _)
Concat(segs, k) ==
    IF k > Len(segs) THEN << >>
    ELSE Slice(segs[k].lo, segs[k].hi) \o Concat(segs, k + 1)

\* C4: the consumed ranges (trivia gaps and result spans, in order) are
\* non-empty, start at 0, each begins where the one before ended and the
\* last ends at index; the span of a yielded result is the last range; a
\* trivia range begins with whitespace or `#`; when end-of-sequence is
\* returned index = Len(bytes), so the ranges concatenated are the buffer.
C4_Tiling ==
    LET n == Len(hist)
    IN  /\ (n = 0) => index = 0
        /\ (n >= 1) => hist[1].lo = 0 /\ hist[n].hi = index
        /\ \A k \in 1..n : hist[k].lo < hist[k].hi
        /\ \A k \in 1..(n - 1) : hist[k].hi = hist[k + 1].lo
        /\ \A k \in 1..(n - 1) :
              hist[k].kind = "trivia" => hist[k + 1].kind = "result"
        /\ \A k \in 1..n :
              hist[k].kind = "trivia"
                => IsWs(ByteAt(hist[k].lo)) \/ ByteAt(hist[k].lo) = HASH
        /\ Yielded => hist[n] = Segment("result", last_index, index)
        /\ Concat(hist, 1) = Slice(0, index)
        /\ (res.tag = "None") => index = Len(bytes) /\ Concat(hist, 1) = bytes

\* two results with trivia before, between and after them, pulled to the end
C4_Witness ==
    /\ res.tag = "None"
    /\ Len(hist) = 5
    /\ hist[1].kind = "trivia" /\ hist[3].kind = "trivia" /\ hist[5].kind = "trivia"

\* --------------------------------------------------------------------- C5

\* the end of the maximal run of letters, digits and `_` that starts at s
IdentEnd(s) ==
    IF \E e \in s..Len(bytes) : ~IsIdentByte(ByteAt(e))
    THEN CHOOSE e \in s..Len(bytes) :
            /\ ~IsIdentByte(ByteAt(e))
            /\ \A k \in s..(e - 1) : IsIdentByte(ByteAt(k))
    ELSE Len(bytes)

\* the offset after the first `"` at or after offset s, Len(bytes) without one
StringEnd(s) ==
    IF \E e \in s..(Len(bytes) - 1) : ByteAt(e) = QUOTE
    THEN 1 + CHOOSE e \in s..(Len(bytes) - 1) :
                /\ ByteAt(e) = QUOTE
                /\ \A k \in s..(e - 1) : ByteAt(k) # QUOTE
    ELSE Len(bytes)

\* where the token or error that starts at offset s ends in the source
TokenEnd(s) ==
    IF IsLetter(ByteAt(s)) THEN IdentEnd(s)
    ELSE IF ByteAt(s) = QUOTE THEN StringEnd(s + 1)
    ELSE IF IsDigit(ByteAt(s))
         THEN IF HasSecondDot(s) THEN SecondDot(s) ELSE RunEnd(s)
    ELSE s + 1

\* C5: after any pull the span last_index..index is exactly the source range
\* of the most recently produced token or error: it ends right after that
\* token's last byte, an Identifier's span is as long as its text and a
\* String's two longer, and the span is still that range after a pull that
\* returned end-of-sequence.
C5_SpanIsExactTokenRange ==
    LET rs == ResultSegs
    IN  /\ Yielded => index = TokenEnd(last_index)
        /\ (res.tag = "Identifier") => index - last_index = Len(res.text)
        /\ (res.tag = "Str") => index - last_index = Len(res.text) + 2
        /\ (res.tag = "None" /\ Len(rs) >= 1)
            => /\ last_index = rs[Len(rs)].lo
               /\ index = rs[Len(rs)].hi

\* --------------------------------------------------------------------- C6

\* how a comment that starts with the `#` at offset p is to be consumed,
\* whatever came before that `#`: the arm chosen by the byte after it and the
\* offset the arm ends at (a block ends ON the `#` of its first `!#` pair, a
\* line comment after its newline, an empty comment after its newline);
\* running out of bytes ends at Len(bytes)
ExpectedComment(p) ==
    LET b == ByteAt(p + 1)
        close == AfterClose(bytes, p + 2)
        nl == AfterNewline(bytes, p + 2)
    IN  IF b = NoByte THEN Comment(p, "none", Scan(TRUE, Len(bytes)))
        ELSE IF b = LF THEN Comment(p, "empty", Scan(FALSE, p + 2))
        ELSE IF b = BANG
             THEN IF close = NoByte THEN Comment(p, "block", Scan(TRUE, Len(bytes)))
                  ELSE Comment(p, "block", Scan(FALSE, close - 1))
        ELSE IF nl = NoByte THEN Comment(p, "line", Scan(TRUE, Len(bytes)))
             ELSE Comment(p, "line", Scan(FALSE, nl))

\* C6: a block comment that finds its `!#` stops with the cursor on the `#`
\* of the first `!#` pair (the `!` consumed, the `#` not); the comment loop
\* then takes that `#` as the start of the next comment, and every comment,
\* whether its `#` closed a block or not, is classified by the byte after its
\* `#` and consumed accordingly.
C6_BlockCommentReentry ==
    \A k \in 1..Len(log) :
        /\ ByteAt(log[k].start) = HASH
        /\ log[k] = ExpectedComment(log[k].start)
        /\ (log[k].kind = "block" /\ ~log[k].eof)
            => /\ ByteAt(log[k].stop - 1) = BANG
               /\ ByteAt(log[k].stop) = HASH
               /\ k < Len(log)
               /\ log[k + 1].start = log[k].stop

\* `#! .. !#` directly followed by bytes and a newline, which go as a line
\* comment, and then a token
C6_Witness ==
    /\ Yielded
    /\ Len(log) = 2
    /\ log[1].kind = "block" /\ log[2].kind = "line"
    /\ last_index = log[2].stop

\* --------------------------------------------------------------------- C7

\* the buffer ends right after the `#` at offset p, or inside the block
\* comment or the line comment that this `#` starts
Unterminated(p) ==
    /\ ByteAt(p) = HASH
    /\ \/ ByteAt(p + 1) = NoByte
       \/ ByteAt(p + 1) = BANG /\ AfterClose(bytes, p + 2) = NoByte
       \/ ByteAt(p + 1) \notin {NoByte, BANG, LF} /\ AfterNewline(bytes, p + 2) = NoByte

\* C7: when a comment the trivia loop enters runs out of bytes (the buffer
\* ends after its `#`, inside its block or inside its line), the pull returns
\* end-of-sequence with index = Len(bytes); no error is returned.
C7_EndInsideTriviaIsEndOfSequence ==
    \A k \in 1..Len(log) :
        (Unterminated(log[k].start) \/ log[k].eof)
            => res.tag = "None" /\ index = Len(bytes)

\* after a token, a pull that ends inside an unterminated block comment
C7_Witness ==
    /\ Len(ResultSegs) >= 1
    /\ Len(log) >= 1
    /\ log[Len(log)].kind = "block"
    /\ Unterminated(log[Len(log)].start)
    /\ log[Len(log)].start + 2 < Len(bytes)

\* --------------------------------------------------------------------- C8

MaxCommentLen == 4
MaxSuffixLen == 4

LineAlphabet == {HASH, BANG, LF, LA, QUOTE}

\* the line comments of at most n bytes: `#`, a byte that is neither `!` nor
\* a newline, bytes that are no newline, a newline
LineComments(n) ==
    { c \in Buffers(LineAlphabet, n) :
        /\ Len(c) >= 3
        /\ c[1] = HASH
        /\ c[2] \notin {BANG, LF}
        /\ c[Len(c)] = LF
        /\ \A k \in 2..(Len(c) - 1) : c[k] # LF }

\* a tokenizer over a line comment followed by a buffer, and a second one
\* over that buffer alone
InitLine ==
    \E c \in LineComments(MaxCommentLen) :
        \E suffix \in Buffers(LineAlphabet, MaxSuffixLen) :
            From(c \o suffix) /\ ref = Fresh(suffix)

NextLine == PullBoth

SpecLine == InitLine /\ [][NextLine]_vars

\* the length of the line comment in front of the second tokenizer's buffer
Shift == Len(bytes) - Len(ref.bytes)

\* C8: a tokenizer over a line comment followed by a buffer returns, pull
\* after pull, the result (token, error or end-of-sequence) that a tokenizer
\* over the buffer alone returns, its span shifted by the comment's length.
C8_LineCommentTransparent ==
    /\ res = ref.res
    /\ (res.tag # "Start") => index = ref.index + Shift
    /\ (Len(ResultSegs) >= 1) => last_index = ref.last_index + Shift

\* both tokenizers have yielded their second result, after trivia of the
\* suffix
C8_Witness ==
    /\ Yielded
    /\ res = ref.res
    /\ Len(ResultSegs) = 2
    /\ hist[Len(hist) - 1].kind = "trivia"
    /\ ref.last_index > 1

\* --------------------------------------------------------------------- C9

\* C9: a pull whose first significant byte is a letter consumes exactly the
\* maximal run of letters, digits and `_` that starts there and returns
\* Keyword if the keyword resolver matches the run, else Ty if the type-name
\* resolver matches it, else Identifier with the run as its text; it never
\* returns an error.
C9_IdentifierRun ==
    (res.tag # "Start" /\ res.tag # "None" /\ IsLetter(ByteAt(last_index)))
        => LET run == Slice(last_index, index)
           IN  /\ index = IdentEnd(last_index)
               /\ res.text = run
               /\ res.tag \notin ErrorTags
               /\ (run \in KeywordNames) => res.tag = "Keyword"
               /\ (run \notin KeywordNames /\ run \in TyNames) => res.tag = "Ty"
               /\ (run \notin KeywordNames /\ run \notin TyNames)
                    => res.tag = "Identifier"

\* an identifier with a digit and an underscore in it, stopped by a space
C9_Witness ==
    /\ res.tag = "Identifier"
    /\ UNDERSCORE \in {res.text[k] : k \in 1..Len(res.text)}
    /\ D2 \in {res.text[k] : k \in 1..Len(res.text)}
    /\ ByteAt(index) = SPACE
    /\ index + 1 < Len(bytes)

\* -------------------------------------------------------------------- C10

\* C10: a pull whose first significant byte is `"`, with a later `"` in the
\* buffer, consumes through the first later `"`; the bytes strictly between
\* the two quotes are taken raw (`#`, `!`, newline and backslash are
\* content): they are the payload of the Str it returns, which therefore
\* holds no `"`, and Str is what it returns whenever they are valid UTF-8
\* (NonUTF8 otherwise).
C10_StringPayloadRaw ==
    (res.tag # "Start" /\ res.tag # "None" /\ ByteAt(last_index) = QUOTE
        /\ \E q \in (last_index + 1)..(Len(bytes) - 1) : ByteAt(q) = QUOTE)
        => LET end == StringEnd(last_index + 1)
               between == Slice(last_index + 1, end - 1)
           IN  /\ index = end
               /\ ByteAt(end - 1) = QUOTE
               /\ \A k \in 1..Len(between) : between[k] # QUOTE
               /\ res.tag = (IF from_utf8_ok(between) THEN "Str" ELSE "NonUTF8")
               /\ (res.tag = "Str") => res.text = between

\* a string of `#` and a backslash, closed by the quote after the backslash,
\* with another quote behind it
C10_Witness ==
    /\ res = Result("Str", <<HASH, BACKSLASH>>, 0, 0)
    /\ ByteAt(index) = QUOTE

\* -------------------------------------------------------------------- C11

\* the last pull returned a token or an error whose first byte is `"`
StringPull == Yielded /\ ByteAt(last_index) = QUOTE

\* a `"` occurs after offset s
QuoteAfter(s) == \E q \in (s + 1)..(Len(bytes) - 1) : ByteAt(q) = QUOTE

\* C11: a pull whose first significant byte is `"` returns NonTerminatedStr
\* exactly when no `"` occurs in the rest of the buffer; the error's span
\* then runs from the opening quote to the end of the buffer, and the pull
\* after it returns end-of-sequence.
C11_UnterminatedString ==
    [][/\ StringPull' => ((res'.tag = "NonTerminatedStr") <=> ~QuoteAfter(last_index)')
       /\ (res'.tag = "NonTerminatedStr")
            => /\ ByteAt(last_index)' = QUOTE
               /\ index' = Len(bytes')
       /\ (res.tag = "NonTerminatedStr")
            => /\ res'.tag = "None"
               /\ index' = Len(bytes')
               /\ last_index' = last_index]_vars

\* after a string, an opening quote followed by bytes and no closing quote,
\* and the pull after the error has returned end-of-sequence
C11_Witness ==
    /\ res.tag = "None"
    /\ Len(ResultSegs) = 2
    /\ ByteAt(last_index) = QUOTE
    /\ ~QuoteAfter(last_index)
    /\ last_index + 1 < index
    /\ index = Len(bytes)

\* -------------------------------------------------------------------- C12

MaxErrLen == 4

\* bytes that start each kind of error the buffers can raise, with a
\* letter, a digit, a punctuation byte, whitespace and `#`
ErrAlphabet == {DOLLAR, QUOTE, BADBYTE, LA, D1, SEMI, LF, HASH}

\* no second tokenizer yet
Idle == [bytes |-> << >>, last_index |-> 0, index |-> 0, res |-> Plain("Idle")]

InitErr == ref = Idle /\ \E buf \in Buffers(ErrAlphabet, MaxErrLen) : From(buf)

\* a pull on the tokenizer, no second tokenizer made
PullAlone == ref = Idle /\ PullMain /\ ref' = Idle

\* a pull that returns an error, after which a fresh tokenizer is made over
\* the rest of the buffer, bytes[index..]
PullError ==
    /\ ref = Idle
    /\ PullMain
    /\ res'.tag \in ErrorTags
    /\ ref' = Fresh(SubSeq(bytes, index' + 1, Len(bytes)))

\* both tokenizers pulled, once the second is there
PullAfterError == ref # Idle /\ PullBoth

NextErr == PullAlone \/ PullError \/ PullAfterError

SpecErr == InitErr /\ [][NextErr]_vars

\* a result has been yielded at or after offset s
YieldedSince(s) == \E k \in 1..Len(hist) : hist[k].kind = "result" /\ hist[k].lo >= s

\* C12: a pull that returns an error leaves index where its scan stopped
\* (one byte past last_index for UnexpectedCharacter, the end of the buffer
\* for NonTerminatedStr, after the closing quote for NonUTF8); from then on
\* each pull returns what a fresh tokenizer over bytes[index..] returns, the
\* spans offset by that index, and no span reaches back before it.
C12_ErrorLeavesCursorAndContinues ==
    /\ (res.tag = "UnexpectedCharacter") => index = last_index + 1
    /\ (res.tag = "NonTerminatedStr") => index = Len(bytes)
    /\ (res.tag = "NonUTF8") => index = StringEnd(last_index + 1)
    /\ (ref # Idle /\ ref.res.tag = "Start")
        => res.tag \in ErrorTags /\ index = Shift
    /\ (ref # Idle /\ ref.res.tag # "Start")
        => /\ res = ref.res
           /\ index = ref.index + Shift
           /\ YieldedSince(Shift) => last_index = ref.last_index + Shift
           /\ Yielded => last_index >= Shift

\* after an error in the middle of the buffer, both tokenizers have skipped
\* trivia and yielded the same token
C12_Witness ==
    /\ ref # Idle
    /\ res.tag \in TokenTags
    /\ res = ref.res
    /\ Shift > 1
    /\ ref.last_index > 0
    /\ last_index = ref.last_index + Shift

\* -------------------------------------------------------------------- C13

MaxPunctLen == 3

PunctBytes == {STAR, COMMA, COLON, SEMI, AT, LPAREN, RPAREN, QMARK}

\* the eight punctuation bytes and a byte of every other class
PunctAlphabet == PunctBytes \cup {LA, D1, DOT, QUOTE, HASH, SPACE}

InitPunct == ref = NoRef /\ \E buf \in Buffers(PunctAlphabet, MaxPunctLen) : From(buf)

SpecPunct == InitPunct /\ [][Next]_vars

\* the token each punctuation byte stands for
TokenOfPunct ==
    [b \in PunctBytes |->
        IF b = STAR THEN "Star"
        ELSE IF b = COMMA THEN "Comma"
        ELSE IF b = COLON THEN "Colon"
        ELSE IF b = SEMI THEN "SemiColon"
        ELSE IF b = AT THEN "At"
        ELSE IF b = LPAREN THEN "LeftSmooth"
        ELSE IF b = RPAREN THEN "RightSmooth"
        ELSE "QuestionMark"]

\* C13: a pull whose first significant byte is one of `*` `,` `:` `;` `@`
\* `(` `)` `?` returns that byte's own token, the eight tokens being
\* distinct, and consumes that one byte whatever follows; on a buffer that
\* holds only such a byte the pulls are that token, then end-of-sequence.
C13_Punctuation ==
    /\ \A a, b \in PunctBytes : (TokenOfPunct[a] = TokenOfPunct[b]) => a = b
    /\ (res.tag # "Start" /\ res.tag # "None" /\ ByteAt(last_index) \in PunctBytes)
        => /\ res = Plain(TokenOfPunct[ByteAt(last_index)])
           /\ index = last_index + 1
    /\ (Len(bytes) = 1 /\ bytes[1] \in PunctBytes /\ res.tag # "Start")
        => /\ hist = <<Segment("result", 0, 1)>>
           /\ res \in {Plain(TokenOfPunct[bytes[1]]), Plain("None")}
           /\ last_index = 0 /\ index = 1

\* a `:` directly followed by another punctuation byte, after an earlier token
C13_Witness ==
    /\ res = Plain("Colon")
    /\ last_index > 0
    /\ ByteAt(index) \in PunctBytes

\* -------------------------------------------------------------------- C14

MaxIntLen == 10

\* the least and the greatest digit and a byte that ends a numeric run
IntAlphabet == {D0, D9, SEMI}

InitInt == ref = NoRef /\ \E buf \in Buffers(IntAlphabet, MaxIntLen) : From(buf)

SpecInt == InitInt /\ [][Next]_vars

\* the last pull returned a token or an error for a digit run without `.`
IntegerPull ==
    Yielded /\ IsDigit(ByteAt(last_index)) /\ DotsOfRun(last_index) = {}

\* a text of digits without its leading zeros
RECURSIVE Significant(_)
Significant(s) ==
    IF Len(s) >= 1 /\ s[1] = D0 THEN Significant(Tail(s)) ELSE s

\* the decimal digits of a natural number
RECURSIVE Decimal(_)
Decimal(n) ==
    IF n < 10 THEN <<D0 + n>> ELSE Append(Decimal(n \div 10), D0 + (n % 10))

\* two texts of digits of one length: s is at most t
RECURSIVE AtMost(_, _)
AtMost(s, t) ==
    IF Len(s) = 0 THEN TRUE
    ELSE IF s[1] # t[1] THEN s[1] < t[1]
    ELSE AtMost(Tail(s), Tail(t))

\* the value of a text of digits is in the range of the integer payload
Fits(s) ==
    LET sig == Significant(s)
        max == Decimal(IntMax)
    IN  Len(sig) < Len(max) \/ (Len(sig) = Len(max) /\ AtMost(sig, max))

\* C14 as claimed: a digit run without `.` is consumed exactly and yields
\* Int with the exact decimal value of its digits, for runs of every
\* length, also when the value exceeds the range of the integer payload.
C14_IntegerExactForEveryRun ==
    IntegerPull
        => /\ index = RunEnd(last_index)
           /\ res.tag = "Int"
           /\ res = Result("Int", << >>, DecimalValue(Slice(last_index, index), 1, 0), 0)

\* C14 as amended: a digit run without `.` is consumed exactly; it yields
\* Int with the exact decimal value of its digits (leading zeros allowed)
\* when that value is in the range of the integer payload, and
\* InvalidIntLiteral when it is not.
C14_IntegerExactOrInvalid ==
    IntegerPull
        => LET run == Slice(last_index, index)
           IN  /\ index = RunEnd(last_index)
               /\ Fits(run) => res = Result("Int", << >>, DecimalValue(run, 1, 0), 0)
               /\ ~Fits(run) => res = Plain("InvalidIntLiteral")

\* a run of ten digits with a leading zero, whose value is in range
C14_Witness ==
    /\ res = Result("Int", << >>, 999999999, 0)
    /\ index - last_index = 10

\* -------------------------------------------------------------------- C15

MaxGap == 2

\* the lexemes of `foo: int32 @ 3.14;`
ExampleLexemes ==
    << <<LF_, LO, LO>>, <<COLON>>, <<LI, LN, LT, D3, D2>>, <<AT>>,
       <<D3, DOT, D1, D4>>, <<SEMI>> >>

\* the buffer `foo: int32 @ 3.14;`
Example ==
    <<LF_, LO, LO, COLON, SPACE, LI, LN, LT, D3, D2, SPACE, AT, SPACE,
      D3, DOT, D1, D4, SEMI>>

\* runs of at most n spaces
Gaps(n) == { [k \in 1..m |-> SPACE] : m \in 0..n }

\* the example's lexemes with runs of spaces, possibly empty, after each
InitExample ==
    /\ ref = NoRef
    /\ \E g \in [1..6 -> Gaps(MaxGap)] :
          From(ExampleLexemes[1] \o g[1] \o ExampleLexemes[2] \o g[2]
               \o ExampleLexemes[3] \o g[3] \o ExampleLexemes[4] \o g[4]
               \o ExampleLexemes[5] \o g[5] \o ExampleLexemes[6] \o g[6])

SpecExample == InitExample /\ [][Next]_vars

\* the tokens of the example, in order
ExampleTokens ==
    << Result("Identifier", <<LF_, LO, LO>>, 0, 0),
       Plain("Colon"),
       Result("Ty", <<LI, LN, LT, D3, D2>>, 0, 0),
       Plain("At"),
       Result("Float", << >>, 314, 2),
       Plain("SemiColon") >>

\* the spans of the tokens of `foo: int32 @ 3.14;`
ExampleSpans ==
    << Segment("result", 0, 3), Segment("result", 3, 4), Segment("result", 5, 10),
       Segment("result", 11, 12), Segment("result", 13, 17),
       Segment("result", 17, 18) >>

\* C15: on `foo: int32 @ 3.14;` (and with other runs of spaces between its
\* lexemes) the pulls yield Identifier("foo"), Colon, Ty(int32), At, the
\* Float of `3.14`, SemiColon and then end-of-sequence, nothing else; each
\* span holds exactly the token's lexeme, so no whitespace is yielded and
\* the `;` is not part of the Float.
C15_Example ==
    LET n == Len(ResultSegs)
    IN  /\ n <= 6
        /\ Yielded
            => /\ res = ExampleTokens[n]
               /\ Slice(last_index, index) = ExampleLexemes[n]
        /\ (res.tag = "None") => n = 6 /\ index = Len(bytes)
        /\ (bytes = Example) => ResultSegs = SubSeq(ExampleSpans, 1, n)

\* `foo: int32 @ 3.14;` pulled to the end
C15_Witness ==
    /\ bytes = Example
    /\ res.tag = "None"
    /\ ResultSegs = ExampleSpans

\* -------------------------------------------------------------------- C16

MaxLiveLen == 3

\* a letter, a digit, the quote, the comment start, whitespace and a byte
\* that no arm of next_token takes
LiveAlphabet == {LA, D1, QUOTE, HASH, LF, DOLLAR}

InitLive == ref = NoRef /\ \E buf \in Buffers(LiveAlphabet, MaxLiveLen) : From(buf)

\* the caller pulls again and again
SpecLive == InitLive /\ [][Next]_vars /\ WF_vars(Pull)

\* C16: a pull that returns a token or an error leaves index at least one
\* byte further; so a buffer of n bytes yields at most n results, and a
\* caller that keeps pulling reaches end-of-sequence, whatever the buffer
\* holds.
C16_ProgressAndTermination ==
    /\ [][Yielded' => index' >= index + 1]_vars
    /\ [](Len(ResultSegs) <= Len(bytes))
    /\ <>(res.tag = "None")

\* a buffer of bytes that are all errors, pulled to the end: as many results
\* as bytes
C16_Witness ==
    /\ res.tag = "None"
    /\ Len(bytes) >= 3
    /\ \A k \in 1..Len(bytes) : bytes[k] = DOLLAR
    /\ Len(ResultSegs) = Len(bytes)

\* ----------------------------------------------------- C17: the error kinds

MaxKindLen == 3

\* a letter, a digit, the quote, a byte that is no UTF-8, a punctuation
\* byte, a byte no arm takes, the comment start and whitespace
KindAlphabet == {LA, D9, QUOTE, BADBYTE, SEMI, DOLLAR, HASH, LF}

\* nine digits: one more digit makes a run whose value is past IntMax
LongRun == <<D9, D9, D9, D9, D9, D9, D9, D9, D9>>

\* buffers of at most MaxKindLen bytes, alone or behind a long run of digits
InitKind ==
    /\ ref = NoRef
    /\ \E head \in {<< >>, LongRun} :
          \E tail \in Buffers(KindAlphabet, MaxKindLen) : From(head \o tail)

SpecKind == InitKind /\ [][Next]_vars

\* C17: the kind of an error follows from the byte at the start of its span:
\* NonTerminatedStr and NonUTF8 come only from a span that starts with `"`,
\* InvalidFloatLiteral and InvalidIntLiteral only from a span that starts
\* with a digit, UnexpectedCharacter exactly from a span whose first byte is
\* no letter, digit, `"` or punctuation byte; a span that starts with a
\* letter or a punctuation byte is never an error.
C17_ErrorKindByFirstByte ==
    Yielded =>
        LET b == ByteAt(last_index)
        IN  /\ res.tag \in {"NonTerminatedStr", "NonUTF8"} => b = QUOTE
            /\ res.tag \in {"InvalidFloatLiteral", "InvalidIntLiteral"} => IsDigit(b)
            /\ res.tag = "UnexpectedCharacter"
                   <=> ~(IsLetter(b) \/ IsDigit(b) \/ b = QUOTE \/ b \in PunctBytes)
            /\ (IsLetter(b) \/ b \in PunctBytes) => res.tag \notin ErrorTags

\* a run of ten digits past IntMax was returned as InvalidIntLiteral
C17_Witness ==
    /\ res.tag = "InvalidIntLiteral"
    /\ IsDigit(ByteAt(last_index))
    /\ index - last_index = Len(LongRun) + 1

\* ------------------------------------------- C18: the end of the sequence

\* C18: when a call of next returns None, index is the length of the buffer,
\* and the call after it returns None again and leaves last_index and index
\* as they were; so no token and no error follows a None.
C18_EndOfSequenceAbsorbing ==
    /\ [](res.tag = "None" => index = Len(bytes))
    /\ [][res.tag = "None" =>
            /\ res'.tag = "None"
            /\ index' = index
            /\ last_index' = last_index
            /\ ResultSegs' = ResultSegs]_vars

\* a call of next that began at the end of the buffer, after the call that
\* ran into the end inside trailing trivia, returned None
C18_Witness ==
    /\ res.tag = "None"
    /\ pre = Len(bytes)
    /\ Len(ResultSegs) >= 1
    /\ Len(hist) >= 1
    /\ hist[Len(hist)].kind = "trivia"
    /\ hist[Len(hist)].hi = Len(bytes)

\* ------------------------------------------- C19: the first byte of a span

MaxStartLen == 5

\* the five bytes of is_ascii_whitespace, the comment start, the block
\* comment mark and a letter
StartAlphabet == {SPACE, TAB, LF, FF, CR, HASH, BANG, LA}

InitStart == ref = NoRef /\ \E buf \in Buffers(StartAlphabet, MaxStartLen) : From(buf)

SpecStart == InitStart /\ [][Next]_vars

\* C19: the byte at last_index of every token and every error returned is
\* no whitespace byte (space, tab, LF, FF, CR) and is not `#`; so neither
\* is ever the byte handed to next_token.
C19_SpanStartsOnSignificantByte ==
    Yielded =>
        /\ last_index < Len(bytes)
        /\ ByteAt(last_index) \notin {SPACE, TAB, LF, FF, CR, HASH}

\* an error that follows a comment and the whitespace after the comment
C19_Witness ==
    /\ res.tag = "UnexpectedCharacter"
    /\ Len(log) >= 1
    /\ last_index > log[Len(log)].stop
    /\ pre < log[1].start

====
